---- MODULE Spec2Model ----
(***************************************************************************)
(* A model of the material-requirements planner of Simple_MRP_CN.          *)
(*                                                                         *)
(* Part I  : the net-requirement computation of calculate_advanced_mrp     *)
(*           (src/advanced_mrp.py, steps 10-12); calculate_mrp of          *)
(*           src/app.py is the same loop with no lot rule, no capacity     *)
(*           and no ceiling of 999999 units per period.                    *)
(* Part II : build_bom_tree / get_all_requirements (steps 5-8).            *)
(* Part III: apply_lot_sizing, check_capacity_constraints and              *)
(*           classify_materials (src/advanced_mrp.py).                     *)
(* Part IV : validate_bom_data (src/utils.py).                             *)
(*                                                                         *)
(* Dates are day numbers; quantities are integers.                         *)
(***************************************************************************)
EXTENDS Integers, Sequences, FiniteSets, TLC

\* ------------------------------------------------------------- bounds ---
MaxDate == 2        \* planning dates are 1..MaxDate
MaxQty == 2         \* largest aggregated gross requirement of one (item, date)
MaxInv == 1         \* largest on-hand stock and largest safety stock
MaxPO == 1          \* largest aggregated purchase-order quantity of one date
MaxLot == 2         \* largest minimum lot
MaxMult == 2        \* largest lot multiple
MaxCap == 1         \* largest available capacity of one (resource, date)

MaxEdges == 3       \* most rows of bom_data
MaxBomQty == 2      \* largest per-unit quantity of a BOM row
MaxPlanQty == 2     \* largest quantity of a production-plan line
MaxLead == 1        \* largest production lead time, in days
DueDate == 10       \* the due date of the production-plan lines

MaxNeg == 3         \* apply_lot_sizing: quantities go down to -MaxNeg
MaxLotQty == 25     \* apply_lot_sizing: largest quantity
MaxLotMin == 20     \* apply_lot_sizing: largest minimum lot
MaxLotMult == 10    \* apply_lot_sizing: largest lot multiple

MaxNet == 2         \* capacity check: largest net quantity of a result row
MaxUsage == 2       \* capacity check: largest usage per unit
MaxCapacity == 3    \* capacity check: largest available capacity
MaxReqRows == 2     \* capacity check: most rows of resource_requirements

MaxClsEdges == 2    \* classification: most rows of bom_data

MaxValEdges == 3    \* validation: most rows of the BOM table

\* ---------------------------------------------------- program constants -
BigM == 999999      \* the big-M of the is_produced constraint
Infinity == 1000000000 \* float('inf'): above every usage of the model

Dates == 1..MaxDate
Items == {"M", "N"}
Resources == {"R"}

VARIABLES
    gross_requirements_summary, \* item -> date -> summed quantity (0: no row)
    po_summary,                 \* item -> date -> summed order quantity (0: no row)
    inventory_data,             \* item -> [onhand, safety], for the items with a record
    lot_sizes,                  \* item -> [min_lot, multiple], for the items with a record
    capacity_map,               \* <<resource, date>> -> capacity, for the pairs recorded
    pc,                         \* "solve" | "report" | "returned" | "raised"
    item_i,                     \* position of the item loop in all_items
    net_requirements,           \* the solver's solution of the current item
    date_i,                     \* position of the result loop in all_dates
    projected_inventory,        \* running inventory of the result loop
    mrp_results,                \* the rows appended so far
    bom_data,                   \* the rows [parent, child, quantity] of the BOM
    production_plan,            \* the rows [product, quantity, date] of the plan
    lead_times,                 \* item -> production lead time, where recorded
    bom_pc,                     \* "build" | "explode" | "done" | "error"
    product_i,                  \* position of the loop over all_products
    stack,                      \* the active calls of build_bom_tree, innermost last
    bom_trees,                  \* product -> its tree, for the products built
    plan_i,                     \* position of the loop over the plan rows
    all_requirements,           \* the gross-requirement records so far
    error_path,                 \* the path named by the circular-reference error
    lot_pc,                     \* "call" | "returned": the call of apply_lot_sizing
    lot_args,                   \* its arguments [quantity, min_lot_size, lot_multiple]
    lot_result,                 \* its return value
    resource_requirements,      \* the rows [item, resource, usage]
    capacity_constraints,       \* the rows [resource, date, capacity]
    chk_pc,                     \* "maps" | "usage" | "check" | "returned"
    row_i,                      \* position of the loop over the rows of mrp_results
    resource_req_map,           \* item -> its (resource, usage) entries, in dict order
    check_capacity_map,         \* <<resource, date>> -> capacity (capacity_map of the check)
    resource_usage,             \* the (resource, date, usage) entries, in dict order
    capacity_check_results,     \* the rows of the capacity check
    cls_pc,                     \* "loop" | "returned": classify_materials
    cls_run,                    \* 1 or 2: which run of classify_materials this is
    remaining,                  \* the materials the loop has not visited yet
    classification_results,     \* the rows [material, type] appended so far
    previous_results,           \* the rows the first run returned
    val_pc,                     \* "call" | "returned": validate_bom_data
    val_result                  \* its return value [is_valid, message]

netVars == <<gross_requirements_summary, po_summary, inventory_data, lot_sizes,
             capacity_map, pc, item_i, net_requirements, date_i,
             projected_inventory, mrp_results>>
bomVars == <<bom_data, production_plan, lead_times, bom_pc, product_i, stack,
             bom_trees, plan_i, all_requirements, error_path>>
toolVars == <<lot_pc, lot_args, lot_result, resource_requirements,
              capacity_constraints, chk_pc, row_i, resource_req_map,
              check_capacity_map, resource_usage, capacity_check_results,
              cls_pc, cls_run, remaining, classification_results, previous_results,
              val_pc, val_result>>
vars == <<netVars, bomVars, toolVars>>

\* ------------------------------------------------------------ helpers ---
Max(a, b) == IF a >= b THEN a ELSE b
Min(a, b) == IF a <= b THEN a ELSE b

SetMax(S) == CHOOSE x \in S : \A y \in S : x >= y
SetMin(S) == CHOOSE x \in S : \A y \in S : x <= y

RECURSIVE SortedSeq(_)
SortedSeq(S) ==
    IF S = {} THEN <<>>
    ELSE LET m == CHOOSE x \in S : \A y \in S : x <= y
         IN <<m>> \o SortedSeq(S \ {m})

RECURSIVE SumOver(_, _)
SumOver(f, S) ==
    IF S = {} THEN 0
    ELSE LET x == CHOOSE y \in S : TRUE
         IN f[x] + SumOver(f, S \ {x})

\* --------------------------------------------------------- the inputs ---
\* dict.get(item, default) on the maps built from inventory_data / lot_sizes
current_inventory(item) ==
    IF item \in DOMAIN inventory_data THEN inventory_data[item].onhand ELSE 0
safety_stock(item) ==
    IF item \in DOMAIN inventory_data THEN inventory_data[item].safety ELSE 0
min_lot_size(item) ==
    IF item \in DOMAIN lot_sizes THEN lot_sizes[item].min_lot ELSE 0
lot_multiple(item) ==
    IF item \in DOMAIN lot_sizes THEN lot_sizes[item].multiple ELSE 1

\* gross_requirements_summary['物料编码'].unique(): the items with a demand row,
\* in the group-by's order (sorted by material code)
ItemsWithDemand ==
    {it \in Items : \E d \in Dates : gross_requirements_summary[it][d] > 0}
\* (variant: the items in the order in which their solves would complete,
\* last code first)
all_items_CompletionOrder ==
    IF "N" \in ItemsWithDemand
    THEN (IF "M" \in ItemsWithDemand THEN <<"N", "M">> ELSE <<"N">>)
    ELSE (IF "M" \in ItemsWithDemand THEN <<"M">> ELSE <<>>)

all_items ==
    IF "M" \in ItemsWithDemand
    THEN (IF "N" \in ItemsWithDemand THEN <<"M", "N">> ELSE <<"M">>)
    ELSE (IF "N" \in ItemsWithDemand THEN <<"N">> ELSE <<>>)

\* sorted(gross_requirements_summary['需求日期'].unique()): the dates of the
\* demand rows of ALL items
AllDateSet ==
    {d \in Dates : \E it \in Items : gross_requirements_summary[it][d] > 0}
all_dates == SortedSeq(AllDateSet)

demand_on_date(item, d) == gross_requirements_summary[item][d]
po_on_date(item, d) == po_summary[item][d]

\* ----------------------------------------------------------- the solve --
\* (variant: the lot multiple is not enforced)
LotFeasible_NoMultiple(item, q) ==
    /\ q >= 0
    /\ \E is_produced \in {0, 1} :
          /\ q <= is_produced * BigM
          /\ q >= is_produced * min_lot_size(item)

\* (variant: the minimum lot is not enforced)
LotFeasible_NoMinLot(item, q) ==
    /\ q >= 0
    /\ q <= BigM
    /\ lot_multiple(item) > 1 => q % lot_multiple(item) = 0

\* is_produced in {0,1}, net <= is_produced*BigM, net >= is_produced*min_lot,
\* and net = lot_multiplier * multiple when multiple > 1
LotFeasible(item, q) ==
    /\ q >= 0
    /\ \E is_produced \in {0, 1} :
          /\ q <= is_produced * BigM
          /\ q >= is_produced * min_lot_size(item)
    /\ lot_multiple(item) > 1 => q % lot_multiple(item) = 0

\* inventory_level after the period at position k of all_dates
InventoryLevel(item, plan, k) ==
    LET upto == {all_dates[j] : j \in 1..k}
    IN current_inventory(item)
       + SumOver([d \in upto |-> po_on_date(item, d) + plan[d] - demand_on_date(item, d)],
                 upto)

\* (variant: the safety-stock constraint is added once, after the loop over
\* the dates, so it binds the last period only)
InventoryFeasible_LastPeriodOnly(item, plan) ==
    all_dates # <<>> =>
        InventoryLevel(item, plan, Len(all_dates)) >= safety_stock(item)

\* (variant: the inventory level is only kept non-negative)
InventoryFeasible_NoSafety(item, plan) ==
    \A k \in 1..Len(all_dates) : InventoryLevel(item, plan, k) >= 0

InventoryFeasible(item, plan) ==
    \A k \in 1..Len(all_dates) : InventoryLevel(item, plan, k) >= safety_stock(item)

\* (variant: the capacity records are not added to the solver)
CapacityFeasible_Ignored(cap, plan) == TRUE

\* (variant: the ceiling is strict)
CapacityFeasible_Strict(cap, plan) ==
    \A rd \in DOMAIN cap :
        rd[2] \in AllDateSet => plan[rd[2]] < cap[rd]

\* for every (resource, date) of capacity_map with date in all_dates:
\* net_requirements[date] <= capacity
CapacityFeasible(cap, plan) ==
    \A rd \in DOMAIN cap :
        rd[2] \in AllDateSet => plan[rd[2]] <= cap[rd]

\* The largest shortfall below safety stock that the inventory level reaches
\* when nothing is produced, lot-sized: no plan of least total has a period
\* above it (lowering such a period to it keeps every constraint), so the
\* search below covers every optimum of the solver's model.
SearchBound(item) ==
    LET zero == [d \in AllDateSet |-> 0]
        need == [k \in 1..Len(all_dates) |->
                    safety_stock(item) - InventoryLevel(item, zero, k)]
        worst == SetMax({0} \cup {need[k] : k \in 1..Len(all_dates)})
        base == Max(worst, min_lot_size(item))
    IN IF worst = 0 THEN 0
       ELSE base + ((lot_multiple(item) - (base % lot_multiple(item)))
                    % lot_multiple(item))

\* Without a lot rule net_requirements[date] is a continuous variable (NumVar);
\* the quantities here are whole numbers and the solver answers with a basic
\* solution, which is then whole as well, so whole values cover both cases.
LotValues(item) == {q \in 0..Min(SearchBound(item), BigM) : LotFeasible(item, q)}

\* the plans that satisfy the constraints added to the solver, under the
\* capacity records cap
FeasiblePlans(item, cap) ==
    {plan \in [AllDateSet -> LotValues(item)] :
        InventoryFeasible(item, plan) /\ CapacityFeasible(cap, plan)}

Total(plan) == SumOver(plan, DOMAIN plan)

\* (variant: any feasible plan is accepted, optimal or not)
LeastTotalPlans_AnyFeasible(item, cap) == FeasiblePlans(item, cap)

\* status == OPTIMAL: the plans of least total net requirement
LeastTotalPlans(item, cap) ==
    LET F == FeasiblePlans(item, cap)
        least == SetMin({Total(plan) : plan \in F})
    IN IF F = {} THEN {} ELSE {plan \in F : Total(plan) = least}

\* solver.Solve() on the model built from capacity_map
OptimalPlans(item) == LeastTotalPlans(item, capacity_map)

\* (variant: a quantity that is already a multiple is raised by one more lot)
apply_lot_sizing_AlwaysRaised(quantity, min_lot, multiple) ==
    IF quantity <= 0 THEN 0
    ELSE LET adjusted_quantity == Max(quantity, min_lot)
             remainder == adjusted_quantity % multiple
         IN IF multiple > 1
            THEN adjusted_quantity + (multiple - remainder)
            ELSE adjusted_quantity

\* apply_lot_sizing(quantity, min_lot_size, lot_multiple)
apply_lot_sizing(quantity, min_lot, multiple) ==
    IF quantity <= 0 THEN 0
    ELSE LET adjusted_quantity == Max(quantity, min_lot)
             remainder == adjusted_quantity % multiple
         IN IF multiple > 1 /\ remainder > 0
            THEN adjusted_quantity + (multiple - remainder)
            ELSE adjusted_quantity

\* ---------------------------------------------------------------- Init --
\* the explosion is not part of this specification
\* apply_lot_sizing, check_capacity_constraints and classify_materials are
\* not called
LotIdle == lot_pc = "idle" /\ lot_args = <<>> /\ lot_result = 0
CheckIdle ==
    /\ resource_requirements = <<>> /\ capacity_constraints = <<>>
    /\ chk_pc = "idle" /\ row_i = 0 /\ resource_req_map = <<>>
    /\ check_capacity_map = <<>> /\ resource_usage = <<>>
    /\ capacity_check_results = <<>>
ClassifyIdle ==
    /\ cls_pc = "idle" /\ cls_run = 0 /\ remaining = {}
    /\ classification_results = <<>> /\ previous_results = <<>>
ValidateIdle == val_pc = "idle" /\ val_result = <<>>
ToolsIdle == LotIdle /\ CheckIdle /\ ClassifyIdle /\ ValidateIdle

BomIdle ==
    /\ bom_data = <<>> /\ production_plan = <<>> /\ lead_times = <<>>
    /\ bom_pc = "idle" /\ product_i = 0 /\ stack = <<>> /\ bom_trees = <<>>
    /\ plan_i = 0 /\ all_requirements = <<>> /\ error_path = <<>>

NoPlan == [d \in {} |-> 0]

NoRecords == [it \in {} |-> 0]
NoDemand == [d \in Dates |-> 0]

\* demand of one unit on at most one date
OneDateDemands ==
    {NoDemand} \cup {[d \in Dates |-> IF d = e THEN 1 ELSE 0] : e \in Dates}

\* The inputs of a run, drawn from six families of calls.
\* Lot rule: one material with an inventory record and a lot-size record.
InputsLot ==
    /\ gross_requirements_summary \in
          {[M |-> g, N |-> NoDemand] : g \in [Dates -> 0..MaxQty] \ {NoDemand}}
    /\ po_summary = [it \in Items |-> NoDemand]
    /\ inventory_data \in [{"M"} -> [onhand : 0..MaxInv, safety : 0..MaxInv]]
    /\ lot_sizes \in [{"M"} -> [min_lot : 0..MaxLot, multiple : 1..MaxMult]]
    /\ capacity_map = NoRecords

\* Receipts and periods: purchase orders of M, and a second material N with
\* demand dates of its own and no inventory, lot-size or purchase record.
InputsPO ==
    /\ gross_requirements_summary \in
          {[M |-> g, N |-> h] : g \in [Dates -> 0..MaxQty] \ {NoDemand},
                                h \in OneDateDemands}
    /\ po_summary \in {[M |-> p, N |-> NoDemand] : p \in [Dates -> {0, MaxPO}]}
    /\ inventory_data \in [{"M"} -> [onhand : {0, MaxInv}, safety : {0}]]
    /\ lot_sizes = NoRecords
    /\ capacity_map = NoRecords

\* Capacity: capacity records of one resource on any of the dates.
InputsCapacity ==
    /\ gross_requirements_summary \in
          {[M |-> g, N |-> NoDemand] : g \in [Dates -> 0..MaxQty] \ {NoDemand}}
    /\ po_summary = [it \in Items |-> NoDemand]
    /\ inventory_data \in [{"M"} -> [onhand : {0, MaxInv}, safety : {0}]]
    /\ lot_sizes = NoRecords
    /\ \E S \in SUBSET (Resources \X Dates) : capacity_map \in [S -> 0..MaxCap]

\* The end-to-end example: on-hand 20, safety stock 10, demand 25 on one day.
InputsExample ==
    /\ gross_requirements_summary =
          [M |-> [d \in Dates |-> IF d = MaxDate THEN 25 ELSE 0], N |-> NoDemand]
    /\ po_summary = [it \in Items |-> NoDemand]
    /\ inventory_data = [it \in {"M"} |-> [onhand |-> 20, safety |-> 10]]
    /\ lot_sizes = [it \in {"M"} |-> [min_lot |-> 0, multiple |-> 1]]
    /\ capacity_map = NoRecords

\* Two materials under capacity: M needs one unit and N needs MaxQty units,
\* each on one date, with one capacity record of MaxCap units.
InputsCapacityTwo ==
    /\ gross_requirements_summary \in
          {[M |-> g, N |-> [d \in Dates |-> IF d = e THEN MaxQty ELSE 0]] :
              g \in OneDateDemands \ {NoDemand}, e \in Dates}
    /\ po_summary = [it \in Items |-> NoDemand]
    /\ inventory_data = [it \in {"M"} |-> [onhand |-> 0, safety |-> 0]]
    /\ lot_sizes = NoRecords
    /\ \E d \in Dates : capacity_map = [rd \in {<<"R", d>>} |-> MaxCap]

\* A large order: one period with a demand of BigM + 1 units, on-hand 0 or 1,
\* no lot-size record and no capacity record.
InputsLarge ==
    /\ gross_requirements_summary =
          [M |-> [d \in Dates |-> IF d = MaxDate THEN BigM + 1 ELSE 0], N |-> NoDemand]
    /\ po_summary = [it \in Items |-> NoDemand]
    /\ inventory_data \in [{"M"} -> [onhand : {0, 1}, safety : {0}]]
    /\ lot_sizes = NoRecords
    /\ capacity_map = NoRecords

InitNet ==
    /\ \/ InputsLot \/ InputsPO \/ InputsCapacity \/ InputsExample
       \/ InputsCapacityTwo \/ InputsLarge
    /\ pc = "solve"
    /\ item_i = 1
    /\ net_requirements = NoPlan
    /\ date_i = 1
    /\ projected_inventory = 0
    /\ mrp_results = <<>>
    /\ BomIdle
    /\ ToolsIdle

inputs == <<gross_requirements_summary, po_summary, inventory_data, lot_sizes,
            capacity_map>>

\* ------------------------------------------------------------- actions --
\* one iteration of `for item in all_items` up to solver.Solve()
Solve ==
    /\ pc = "solve"
    /\ item_i <= Len(all_items)
    /\ LET item == all_items[item_i]
       IN \E plan \in OptimalPlans(item) :
            /\ net_requirements' = plan
            /\ projected_inventory' = current_inventory(item)
            /\ date_i' = 1
            /\ pc' = "report"
    /\ UNCHANGED <<bomVars, inputs, item_i, mrp_results>>
    /\ UNCHANGED toolVars

\* (variant: the rows appended before the failure are returned)
RowsAfterRaise_Partial(rows) == rows

\* the ValueError leaves the function: its list of rows is lost
RowsAfterRaise(rows) == <<>>

\* status != OPTIMAL: raise ValueError, nothing is returned
RaiseNoOptimum ==
    /\ pc = "solve"
    /\ item_i <= Len(all_items)
    /\ OptimalPlans(all_items[item_i]) = {}
    /\ pc' = "raised"
    /\ mrp_results' = RowsAfterRaise(mrp_results)
    /\ UNCHANGED <<bomVars, inputs, item_i, net_requirements, date_i, projected_inventory>>
    /\ UNCHANGED toolVars

\* (variant: the receipt of the period is left out of the closing inventory)
ClosingInventory_NoReceipt(opening, date_po, net_req, date_req) ==
    opening + net_req - date_req

\* projected_inventory + date_po + net_req - date_req
ClosingInventory(opening, date_po, net_req, date_req) ==
    opening + date_po + net_req - date_req

\* (variant: a row is appended for every period that has demand)
RowEmitted_OnDemand(net_req, date_req) == net_req > 0 \/ date_req > 0

\* if net_req > 0: mrp_results.append(...)
RowEmitted(net_req, date_req) == net_req > 0

\* (variant: the running inventory moves only when a row is appended)
UpdatedInventory_OnlyOnRow(opening, date_po, net_req, date_req) ==
    IF net_req > 0 THEN opening + date_po + net_req - date_req ELSE opening

\* projected_inventory = projected_inventory + date_po + net_req - date_req,
\* after the if, for every period
UpdatedInventory(opening, date_po, net_req, date_req) ==
    opening + date_po + net_req - date_req

\* one iteration of the result loop `for date in all_dates`
ReportPeriod ==
    /\ pc = "report"
    /\ date_i <= Len(all_dates)
    /\ LET item == all_items[item_i]
           date == all_dates[date_i]
           date_req == demand_on_date(item, date)
           date_po == po_on_date(item, date)
           net_req == net_requirements[date]
           closing == ClosingInventory(projected_inventory, date_po, net_req, date_req)
           row == [item |-> item, date |-> date, gross |-> date_req,
                   opening |-> projected_inventory,
                   safety |-> safety_stock(item), receipt |-> date_po,
                   net |-> net_req, closing |-> closing]
       IN /\ mrp_results' = IF RowEmitted(net_req, date_req) THEN Append(mrp_results, row)
                            ELSE mrp_results
          /\ projected_inventory' =
                UpdatedInventory(projected_inventory, date_po, net_req, date_req)
    /\ date_i' = date_i + 1
    /\ UNCHANGED <<bomVars, inputs, pc, item_i, net_requirements>>
    /\ UNCHANGED toolVars

\* the result loop is over: next item
NextItem ==
    /\ pc = "report"
    /\ date_i > Len(all_dates)
    /\ item_i' = item_i + 1
    /\ pc' = "solve"
    /\ UNCHANGED <<bomVars, inputs, net_requirements, date_i, projected_inventory, mrp_results>>
    /\ UNCHANGED toolVars

\* return pd.DataFrame(mrp_results)
Return ==
    /\ pc = "solve"
    /\ item_i > Len(all_items)
    /\ pc' = "returned"
    /\ UNCHANGED <<bomVars, inputs, item_i, net_requirements, date_i, projected_inventory,
                   mrp_results>>
    /\ UNCHANGED toolVars

NextNet == Solve \/ RaiseNoOptimum \/ ReportPeriod \/ NextItem \/ Return

Spec == InitNet /\ [][NextNet]_vars
\* ======================================================================
\* Part II: build_bom_tree and get_all_requirements
\* ======================================================================
Materials == {"A", "B", "C"}

SeqsUpTo(S, n) == UNION {[1..k -> S] : k \in 0..n}

\* production_lead_time_map.get(item, 0)
prod_lead_time(item) ==
    IF item \in DOMAIN lead_times THEN lead_times[item] ELSE 0

\* production_plan['产品编码'].unique(): first occurrences, in row order
all_products ==
    LET firsts == {i \in 1..Len(production_plan) :
                     \A j \in 1..(i - 1) :
                        production_plan[j].product # production_plan[i].product}
    IN [k \in 1..Cardinality(firsts) |-> production_plan[SortedSeq(firsts)[k]].product]

\* bom_data[bom_data['父项编码'] == parent_item], in row order
IsRowOf(parent_item, row) == row.parent = parent_item
ChildRows(parent_item) ==
    SelectSeq(bom_data, LAMBDA row : IsRowOf(parent_item, row))

\* result[child_item] = entry on a dict kept in insertion order
DictSet(result, entry) ==
    IF \E j \in 1..Len(result) : result[j].item = entry.item
    THEN [j \in 1..Len(result) |->
            IF result[j].item = entry.item THEN entry ELSE result[j]]
    ELSE Append(result, entry)

Top == stack[Len(stack)]
NextChildRow == ChildRows(Top.item)[Top.i]

\* (variant: only the immediate parent is compared)
InPath_ParentOnly(item, path) == path # <<>> /\ path[Len(path)] = item

\* parent_item in path
InPath(item, path) == \E j \in 1..Len(path) : path[j] = item

\* (variant: the message names the cycle only, from the first occurrence)
CircularMessage_CycleOnly(path, parent_item) ==
    LET first == CHOOSE j \in 1..Len(path) : path[j] = parent_item
    IN SubSeq(path, first, Len(path)) \o <<parent_item>>

\* the path joined into the message: path + [parent_item]
CircularMessage(path, parent_item) == path \o <<parent_item>>

\* build_bom_tree(product, bom_data) is called for the next product
BuildStart ==
    /\ bom_pc = "build"
    /\ stack = <<>>
    /\ product_i <= Len(all_products)
    /\ stack' = <<[item |-> all_products[product_i], level |-> 0, path |-> <<>>,
                   i |-> 1, result |-> <<>>]>>
    /\ UNCHANGED <<netVars, bom_data, production_plan, lead_times, bom_pc, product_i,
                   bom_trees, plan_i, all_requirements, error_path>>
    /\ UNCHANGED toolVars

\* the loop body calls build_bom_tree(child_item, ..., path + [parent_item])
\* and the callee finds child_item not in its path
BuildRecurse ==
    /\ bom_pc = "build"
    /\ stack # <<>>
    /\ Top.i <= Len(ChildRows(Top.item))
    /\ ~InPath(NextChildRow.child, Top.path \o <<Top.item>>)
    /\ stack' = Append(stack, [item |-> NextChildRow.child, level |-> Top.level + 1,
                               path |-> Top.path \o <<Top.item>>, i |-> 1,
                               result |-> <<>>])
    /\ UNCHANGED <<netVars, bom_data, production_plan, lead_times, bom_pc, product_i,
                   bom_trees, plan_i, all_requirements, error_path>>
    /\ UNCHANGED toolVars

\* the callee finds child_item in its path: raise ValueError, which no caller
\* catches
RaiseCircular ==
    /\ bom_pc = "build"
    /\ stack # <<>>
    /\ Top.i <= Len(ChildRows(Top.item))
    /\ InPath(NextChildRow.child, Top.path \o <<Top.item>>)
    /\ error_path' = CircularMessage(Top.path \o <<Top.item>>, NextChildRow.child)
    /\ bom_pc' = "error"
    /\ stack' = <<>>
    /\ bom_trees' = <<>>
    /\ UNCHANGED <<netVars, bom_data, production_plan, lead_times, product_i, plan_i,
                   all_requirements>>
    /\ UNCHANGED toolVars

\* the loop over the children is over: return result to the caller, which
\* stores it under the child and goes on to its next row
BuildReturn ==
    /\ bom_pc = "build"
    /\ stack # <<>>
    /\ Top.i > Len(ChildRows(Top.item))
    /\ IF Len(stack) = 1
       THEN /\ bom_trees' = (Top.item :> Top.result) @@ bom_trees
            /\ product_i' = product_i + 1
            /\ stack' = <<>>
       ELSE LET caller == stack[Len(stack) - 1]
                row == ChildRows(caller.item)[caller.i]
                entry == [item |-> row.child, quantity |-> row.quantity,
                          level |-> caller.level + 1, children |-> Top.result]
            IN /\ stack' = SubSeq(stack, 1, Len(stack) - 2) \o
                            <<[caller EXCEPT !.result = DictSet(caller.result, entry),
                                             !.i = caller.i + 1]>>
               /\ UNCHANGED <<bom_trees, product_i>>
    /\ UNCHANGED <<netVars, bom_data, production_plan, lead_times, bom_pc, plan_i,
                   all_requirements, error_path>>
    /\ UNCHANGED toolVars

\* every product has its tree
BuildDone ==
    /\ bom_pc = "build"
    /\ stack = <<>>
    /\ product_i > Len(all_products)
    /\ bom_pc' = "explode"
    /\ UNCHANGED <<netVars, bom_data, production_plan, lead_times, product_i, stack,
                   bom_trees, plan_i, all_requirements, error_path>>
    /\ UNCHANGED toolVars

\* (variant: the child's quantity is the per-unit quantity, not multiplied)
RECURSIVE get_all_requirements_PerUnit(_, _, _, _, _, _)
get_all_requirements_PerUnit(item, quantity, date, bom_tree_node, level, path) ==
    LET adjusted_date == date - prod_lead_time(item)
        own == [item |-> item, quantity |-> quantity, date |-> adjusted_date,
                level |-> level, path |-> path \o <<item>>]
        sub[k \in 0..Len(bom_tree_node)] ==
            IF k = 0 THEN <<>>
            ELSE sub[k - 1] \o
                 get_all_requirements_PerUnit(
                     bom_tree_node[k].item, bom_tree_node[k].quantity,
                     adjusted_date, bom_tree_node[k].children, level + 1,
                     path \o <<item>>)
    IN <<own>> \o sub[Len(bom_tree_node)]

\* (variant: the child's date is taken from the parent's unadjusted date)
RECURSIVE get_all_requirements_ParentDue(_, _, _, _, _, _)
get_all_requirements_ParentDue(item, quantity, date, bom_tree_node, level, path) ==
    LET adjusted_date == date - prod_lead_time(item)
        own == [item |-> item, quantity |-> quantity, date |-> adjusted_date,
                level |-> level, path |-> path \o <<item>>]
        sub[k \in 0..Len(bom_tree_node)] ==
            IF k = 0 THEN <<>>
            ELSE sub[k - 1] \o
                 get_all_requirements_ParentDue(
                     bom_tree_node[k].item, quantity * bom_tree_node[k].quantity,
                     date, bom_tree_node[k].children, level + 1,
                     path \o <<item>>)
    IN <<own>> \o sub[Len(bom_tree_node)]

\* get_all_requirements(item, quantity, date, bom_tree_node, level): the
\* records of the item and of its subtree. `path` is the chain of ancestors,
\* carried for the properties only; the program's records do not hold it.
RECURSIVE get_all_requirements(_, _, _, _, _, _)
get_all_requirements(item, quantity, date, bom_tree_node, level, path) ==
    LET adjusted_date == date - prod_lead_time(item)
        own == [item |-> item, quantity |-> quantity, date |-> adjusted_date,
                level |-> level, path |-> path \o <<item>>]
        sub[k \in 0..Len(bom_tree_node)] ==
            IF k = 0 THEN <<>>
            ELSE sub[k - 1] \o
                 get_all_requirements(
                     bom_tree_node[k].item, quantity * bom_tree_node[k].quantity,
                     adjusted_date, bom_tree_node[k].children, level + 1,
                     path \o <<item>>)
    IN <<own>> \o sub[Len(bom_tree_node)]

\* one iteration of `for _, row in production_plan.iterrows()`; each record
\* is tagged with the plan row it comes from
ExplodePlanLine ==
    /\ bom_pc = "explode"
    /\ plan_i <= Len(production_plan)
    /\ LET row == production_plan[plan_i]
           product_requirements ==
               get_all_requirements(row.product, row.quantity, row.date,
                                    bom_trees[row.product], 0, <<>>)
       IN all_requirements' = all_requirements \o
             [k \in 1..Len(product_requirements) |->
                 [line |-> plan_i, item |-> product_requirements[k].item,
                  quantity |-> product_requirements[k].quantity,
                  date |-> product_requirements[k].date,
                  level |-> product_requirements[k].level,
                  path |-> product_requirements[k].path]]
    /\ plan_i' = plan_i + 1
    /\ UNCHANGED <<netVars, bom_data, production_plan, lead_times, bom_pc, product_i, stack,
                   bom_trees, error_path>>
    /\ UNCHANGED toolVars

\* the order of the material codes, as the group-by sorts its keys
MaterialOrder == <<"A", "B", "C">>
MaterialRank(item) == CHOOSE k \in 1..Len(MaterialOrder) : MaterialOrder[k] = item

KeyBefore(a, b) ==
    \/ MaterialRank(a[1]) < MaterialRank(b[1])
    \/ (a[1] = b[1] /\ a[2] <= b[2])

\* the keys in sorted order: the key at position k has k - 1 keys before it
SortedKeys(S) ==
    [k \in 1..Cardinality(S) |->
        CHOOSE x \in S : Cardinality({y \in S : y # x /\ KeyBefore(y, x)}) = k - 1]

\* (variant: a group keeps the quantity of its last record)
groupby_sum_KeepLast(records) ==
    LET keys == {<<records[i].item, records[i].date>> : i \in 1..Len(records)}
        ks == SortedKeys(keys)
        group(key) == {i \in 1..Len(records) :
                         records[i].item = key[1] /\ records[i].date = key[2]}
    IN [k \in 1..Len(ks) |->
          [item |-> ks[k][1], date |-> ks[k][2],
           quantity |-> records[SetMax(group(ks[k]))].quantity]]

\* gross_requirements_df.groupby(['物料编码', '需求日期']).agg({'需求数量': 'sum'})
\* .reset_index(): one row per key, keys in sorted order
groupby_sum(records) ==
    LET keys == {<<records[i].item, records[i].date>> : i \in 1..Len(records)}
        ks == SortedKeys(keys)
        group(key) == {i \in 1..Len(records) :
                         records[i].item = key[1] /\ records[i].date = key[2]}
    IN [k \in 1..Len(ks) |->
          [item |-> ks[k][1], date |-> ks[k][2],
           quantity |-> SumOver([i \in group(ks[k]) |-> records[i].quantity],
                                group(ks[k]))]]

\* every plan row is exploded: the records are grouped by material and date.
\* In this part gross_requirements_summary holds the rows of the grouped
\* table; the net-requirement part reads the same table by item and date.
ExplodeDone ==
    /\ bom_pc = "explode"
    /\ plan_i > Len(production_plan)
    /\ gross_requirements_summary' = groupby_sum(all_requirements)
    /\ bom_pc' = "done"
    /\ UNCHANGED <<po_summary, inventory_data, lot_sizes, capacity_map, pc, item_i,
                   net_requirements, date_i, projected_inventory, mrp_results>>
    /\ UNCHANGED <<bom_data, production_plan, lead_times, product_i, stack,
                   bom_trees, plan_i, all_requirements, error_path>>
    /\ UNCHANGED toolVars

\* the net-requirement computation is not part of this specification
NetIdle ==
    /\ gross_requirements_summary = <<>> /\ po_summary = <<>>
    /\ inventory_data = <<>> /\ lot_sizes = <<>> /\ capacity_map = <<>>
    /\ pc = "idle" /\ item_i = 0 /\ net_requirements = <<>> /\ date_i = 0
    /\ projected_inventory = 0 /\ mrp_results = <<>>

AllPairs == Materials \X Materials
DownwardPairs == {<<"A", "B">>, <<"A", "C">>, <<"B", "C">>}

BomRows(pairs, quantities) ==
    {[parent |-> pr[1], child |-> pr[2], quantity |-> q] :
        pr \in pairs, q \in quantities}

\* Any graph over the materials, cyclic or not, rows in any order; unit
\* quantities, no lead-time record.
InputsAnyGraph ==
    /\ bom_data \in SeqsUpTo(BomRows(AllPairs, {1}), MaxEdges)
    /\ production_plan = <<[product |-> "A", quantity |-> 1, date |-> DueDate]>>
    /\ lead_times = <<>>

\* Acyclic graphs (chains, diamonds, repeated rows) with quantities and lead
\* times: rows in any order, quantities 1 or MaxBomQty, a lead time of 1 to
\* MaxLead days for any subset of the materials.
InputsAcyclic ==
    /\ bom_data \in SeqsUpTo(BomRows(DownwardPairs, {1, MaxBomQty}), MaxEdges)
    /\ production_plan \in
          {<<[product |-> "A", quantity |-> q, date |-> DueDate]>> :
              q \in {1, MaxPlanQty}}
    /\ \E S \in SUBSET Materials : lead_times \in [S -> {MaxLead}]

\* Two plan rows over a BOM of two rows: the second row of the plan is for the
\* same product or for a component, on the same date or MaxLead days earlier.
InputsTwoLines ==
    /\ bom_data \in [1..2 -> BomRows(DownwardPairs, {1, MaxBomQty})]
    /\ production_plan \in
          {<<[product |-> "A", quantity |-> MaxPlanQty, date |-> DueDate],
             [product |-> p, quantity |-> q, date |-> d]>> :
              p \in {"A", "B"}, q \in {1, MaxPlanQty}, d \in {DueDate, DueDate - MaxLead}}
    /\ lead_times \in {<<>>, [x \in {"B"} |-> MaxLead]}

\* Two products: A, then B, over up to two rows that may put a cycle below B
\* out of A's reach.
InputsTwoProducts ==
    /\ bom_data \in SeqsUpTo(BomRows({<<"A", "C">>, <<"B", "C">>, <<"B", "B">>}, {1}), 2)
    /\ production_plan = <<[product |-> "A", quantity |-> 1, date |-> DueDate],
                           [product |-> "B", quantity |-> 1, date |-> DueDate]>>
    /\ lead_times = <<>>

InitBom ==
    /\ InputsAnyGraph \/ InputsAcyclic \/ InputsTwoLines \/ InputsTwoProducts
    /\ bom_pc = "build"
    /\ product_i = 1
    /\ stack = <<>>
    /\ bom_trees = <<>>
    /\ plan_i = 1
    /\ all_requirements = <<>>
    /\ error_path = <<>>
    /\ NetIdle
    /\ ToolsIdle

NextBom ==
    \/ BuildStart \/ BuildRecurse \/ RaiseCircular \/ BuildReturn \/ BuildDone
    \/ ExplodePlanLine \/ ExplodeDone

SpecBom == InitBom /\ [][NextBom]_vars

\* a run of calculate_advanced_mrp, seen in its explosion steps or in its
\* net-requirement steps
InitRun == InitBom \/ InitNet
NextRun == NextBom \/ NextNet
SpecRun == InitRun /\ [][NextRun]_vars

\* ======================================================================
\* Part III: apply_lot_sizing, check_capacity_constraints, classify_materials
\* ======================================================================
\* ---------------------------------------------------- apply_lot_sizing --
lotVars == <<lot_pc, lot_args, lot_result>>
checkVars == <<resource_requirements, capacity_constraints, chk_pc, row_i,
               resource_req_map, check_capacity_map, resource_usage,
               capacity_check_results>>
classifyVars == <<cls_pc, cls_run, remaining, classification_results, previous_results>>
validateVars == <<val_pc, val_result>>

InitLot ==
    /\ lot_args \in [quantity : (0 - MaxNeg)..MaxLotQty,
                      min_lot_size : 0..MaxLotMin,
                      lot_multiple : 1..MaxLotMult]
    /\ lot_pc = "call"
    /\ lot_result = 0
    /\ NetIdle /\ BomIdle /\ CheckIdle /\ ClassifyIdle /\ ValidateIdle

\* adjusted = apply_lot_sizing(quantity, min_lot_size, lot_multiple)
ApplyLotSizing ==
    /\ lot_pc = "call"
    /\ lot_result' = apply_lot_sizing(lot_args.quantity, lot_args.min_lot_size,
                                      lot_args.lot_multiple)
    /\ lot_pc' = "returned"
    /\ UNCHANGED <<netVars, bomVars, checkVars, classifyVars, validateVars, lot_args>>

NextLot == ApplyLotSizing

SpecLot == InitLot /\ [][NextLot]_vars

\* ------------------------------------------ check_capacity_constraints --
CheckResources == {"R", "S"}

\* Two result rows, up to MaxReqRows resource-requirement rows (repeated
\* (material, resource) pairs and usage 0 included), at most one capacity row.
\* Of the result rows only the columns the check reads are kept.
InputsCheckAny ==
    /\ mrp_results \in
          {<<[item |-> "M", date |-> 1, net |-> n], [item |-> it, date |-> d, net |-> 1]>> :
              n \in {1, MaxNet}, it \in Items, d \in Dates}
    /\ resource_requirements \in
          SeqsUpTo([item : Items, resource : CheckResources, usage : {0, MaxUsage}],
                   MaxReqRows)
    /\ capacity_constraints \in
          SeqsUpTo([resource : {"R"}, date : Dates, capacity : {MaxUsage, MaxCapacity}], 1)

\* Resource R with capacity 100 on day 1, material M with net 15 and a usage
\* of 2 or of 10 per unit.
InputsCheckExample ==
    /\ mrp_results = <<[item |-> "M", date |-> 1, net |-> 15]>>
    /\ resource_requirements \in
          {<<[item |-> "M", resource |-> "R", usage |-> u]>> : u \in {2, 10}}
    /\ capacity_constraints = <<[resource |-> "R", date |-> 1, capacity |-> 100]>>

InitCheck ==
    /\ InputsCheckAny \/ InputsCheckExample
    /\ chk_pc = "maps"
    /\ row_i = 1
    /\ resource_req_map = <<>>
    /\ check_capacity_map = <<>>
    /\ resource_usage = <<>>
    /\ capacity_check_results = <<>>
    /\ gross_requirements_summary = <<>> /\ po_summary = <<>>
    /\ inventory_data = <<>> /\ lot_sizes = <<>> /\ capacity_map = <<>>
    /\ pc = "idle" /\ item_i = 0 /\ net_requirements = <<>> /\ date_i = 0
    /\ projected_inventory = 0
    /\ BomIdle /\ LotIdle /\ ClassifyIdle /\ ValidateIdle

\* (variant: a repeated resource keeps the usage of its first record)
DictPut_KeepFirst(entries, resource, usage) ==
    IF \E j \in 1..Len(entries) : entries[j].resource = resource
    THEN entries
    ELSE Append(entries, [resource |-> resource, usage |-> usage])

\* resource_req_map[item][resource] = usage, on a dict kept in insertion order
DictPut(entries, resource, usage) ==
    IF \E j \in 1..Len(entries) : entries[j].resource = resource
    THEN [j \in 1..Len(entries) |->
            IF entries[j].resource = resource
            THEN [resource |-> resource, usage |-> usage] ELSE entries[j]]
    ELSE Append(entries, [resource |-> resource, usage |-> usage])

\* the loop over resource_requirements.iterrows()
ResourceReqMapOf(rows) ==
    LET f[k \in 0..Len(rows)] ==
            IF k = 0 THEN <<>>
            ELSE LET row == rows[k]
                     prev == f[k - 1]
                     old == IF row.item \in DOMAIN prev THEN prev[row.item] ELSE <<>>
                 IN [it \in DOMAIN prev \cup {row.item} |->
                        IF it = row.item THEN DictPut(old, row.resource, row.usage)
                        ELSE prev[it]]
    IN f[Len(rows)]

\* the loop over capacity_constraints.iterrows(): capacity_map[resource][date]
CapacityMapOf(rows) ==
    [key \in {<<rows[i].resource, rows[i].date>> : i \in 1..Len(rows)} |->
        rows[SetMax({i \in 1..Len(rows) :
                        rows[i].resource = key[1] /\ rows[i].date = key[2]})].capacity]

\* both maps are built
BuildMaps ==
    /\ chk_pc = "maps"
    /\ resource_req_map' = ResourceReqMapOf(resource_requirements)
    /\ check_capacity_map' = CapacityMapOf(capacity_constraints)
    /\ chk_pc' = "usage"
    /\ UNCHANGED <<netVars, bomVars, lotVars, classifyVars, validateVars, resource_requirements,
                   capacity_constraints, row_i, resource_usage, capacity_check_results>>

\* (variant: every use is entered as a new date entry, nothing is added up)
UsageAdd_NewEntry(usage_dict, resource, date, total_usage) ==
    IF \E j \in 1..Len(usage_dict) : usage_dict[j].resource = resource
    THEN [j \in 1..Len(usage_dict) |->
            IF usage_dict[j].resource = resource
            THEN [resource |-> resource,
                  by_date |-> Append(usage_dict[j].by_date,
                                     [date |-> date, usage |-> total_usage])]
            ELSE usage_dict[j]]
    ELSE Append(usage_dict, [resource |-> resource,
                             by_date |-> <<[date |-> date, usage |-> total_usage]>>])

\* resource_usage[resource][date] += total_usage, creating the entries that
\* are missing (with 0)
UsageAdd(usage_dict, resource, date, total_usage) ==
    IF \E j \in 1..Len(usage_dict) : usage_dict[j].resource = resource
    THEN [j \in 1..Len(usage_dict) |->
            IF usage_dict[j].resource = resource
            THEN LET by_date == usage_dict[j].by_date
                 IN [resource |-> resource,
                     by_date |->
                        IF \E k \in 1..Len(by_date) : by_date[k].date = date
                        THEN [k \in 1..Len(by_date) |->
                                IF by_date[k].date = date
                                THEN [date |-> date,
                                      usage |-> by_date[k].usage + total_usage]
                                ELSE by_date[k]]
                        ELSE Append(by_date, [date |-> date, usage |-> 0 + total_usage])]
            ELSE usage_dict[j]]
    ELSE Append(usage_dict, [resource |-> resource,
                             by_date |-> <<[date |-> date, usage |-> 0 + total_usage]>>])

\* one iteration of `for _, row in mrp_results.iterrows()`
AccumulateRow ==
    /\ chk_pc = "usage"
    /\ row_i <= Len(mrp_results)
    /\ LET row == mrp_results[row_i]
           entries == IF row.item \in DOMAIN resource_req_map
                      THEN resource_req_map[row.item] ELSE <<>>
           g[k \in 0..Len(entries)] ==
               IF k = 0 THEN resource_usage
               ELSE UsageAdd(g[k - 1], entries[k].resource, row.date,
                             row.net * entries[k].usage)
       IN resource_usage' = g[Len(entries)]
    /\ row_i' = row_i + 1
    /\ UNCHANGED <<netVars, bomVars, lotVars, classifyVars, validateVars, resource_requirements,
                   capacity_constraints, chk_pc, resource_req_map, check_capacity_map,
                   capacity_check_results>>

\* capacity_map.get(resource, {}).get(date, float('inf'))
CapacityOf(resource, date) ==
    IF <<resource, date>> \in DOMAIN check_capacity_map
    THEN check_capacity_map[<<resource, date>>] ELSE Infinity

\* (variant: a usage equal to the capacity is flagged)
IsViolated_AtCapacity(usage, capacity) == usage >= capacity

\* is_violated = usage > capacity
IsViolated(usage, capacity) == usage > capacity

\* max(0, usage - capacity)
Overage(usage, capacity) == Max(0, usage - capacity)

\* the loops over resource_usage: one row per resource and date entry
CheckUsage ==
    /\ chk_pc = "usage"
    /\ row_i > Len(mrp_results)
    /\ LET rows_of(entry) ==
               [k \in 1..Len(entry.by_date) |->
                   LET usage == entry.by_date[k].usage
                       capacity == CapacityOf(entry.resource, entry.by_date[k].date)
                   IN [resource |-> entry.resource, date |-> entry.by_date[k].date,
                       usage |-> usage, capacity |-> capacity,
                       is_violated |-> IsViolated(usage, capacity),
                       overage |-> Overage(usage, capacity)]]
           h[j \in 0..Len(resource_usage)] ==
               IF j = 0 THEN <<>> ELSE h[j - 1] \o rows_of(resource_usage[j])
       IN capacity_check_results' = h[Len(resource_usage)]
    /\ chk_pc' = "returned"
    /\ UNCHANGED <<netVars, bomVars, lotVars, classifyVars, validateVars, resource_requirements,
                   capacity_constraints, row_i, resource_req_map, check_capacity_map,
                   resource_usage>>

NextCheck == BuildMaps \/ AccumulateRow \/ CheckUsage

SpecCheck == InitCheck /\ [][NextCheck]_vars

\* --------------------------------------------------- classify_materials --
\* set(inventory_data['物料编码']), set(bom_data['父项编码']), set(bom_data['子项编码'])
all_materials == DOMAIN inventory_data
all_parents == {bom_data[i].parent : i \in 1..Len(bom_data)}
all_children == {bom_data[i].child : i \in 1..Len(bom_data)}

raw_materials == all_materials \cap (all_children \ all_parents)

\* (variant: every parent is a finished good)
finished_goods_AnyParent == all_materials \cap all_parents

finished_goods == all_materials \cap (all_parents \ all_children)
intermediate_materials == all_materials \cap all_parents \cap all_children

\* the if / elif chain: '原材料', '成品', '中间件', '未知'
MaterialType(material) ==
    IF material \in raw_materials THEN "raw"
    ELSE IF material \in finished_goods THEN "finished"
    ELSE IF material \in intermediate_materials THEN "intermediate"
    ELSE "unknown"

\* Any BOM of up to MaxClsEdges rows over the materials (cycles and repeated
\* rows included), any set of materials in the inventory.
InitClassify ==
    /\ bom_data \in SeqsUpTo(BomRows(AllPairs, {1}), MaxClsEdges)
    /\ \E S \in SUBSET Materials :
          inventory_data = [m \in S |-> [onhand |-> 0, safety |-> 0]]
    /\ cls_pc = "loop"
    /\ cls_run = 1
    /\ remaining = all_materials
    /\ classification_results = <<>>
    /\ previous_results = <<>>
    /\ gross_requirements_summary = <<>> /\ po_summary = <<>>
    /\ lot_sizes = <<>> /\ capacity_map = <<>>
    /\ pc = "idle" /\ item_i = 0 /\ net_requirements = <<>> /\ date_i = 0
    /\ projected_inventory = 0 /\ mrp_results = <<>>
    /\ production_plan = <<>> /\ lead_times = <<>>
    /\ bom_pc = "idle" /\ product_i = 0 /\ stack = <<>> /\ bom_trees = <<>>
    /\ plan_i = 0 /\ all_requirements = <<>> /\ error_path = <<>>
    /\ LotIdle /\ CheckIdle /\ ValidateIdle

\* one iteration of `for material in all_materials`: a set is iterated in an
\* order the program does not fix (for string codes it follows the hashes,
\* which differ from one interpreter run to the next)
ClassifyNext ==
    /\ cls_pc = "loop"
    /\ \E material \in remaining :
          /\ classification_results' =
                Append(classification_results,
                       [material |-> material, type |-> MaterialType(material)])
          /\ remaining' = remaining \ {material}
    /\ UNCHANGED <<netVars, bomVars, lotVars, checkVars, validateVars, cls_pc, cls_run,
                   previous_results>>

\* return pd.DataFrame(classification_results)
ClassifyReturn ==
    /\ cls_pc = "loop"
    /\ remaining = {}
    /\ cls_pc' = "returned"
    /\ UNCHANGED <<netVars, bomVars, lotVars, checkVars, validateVars, cls_run, remaining,
                   classification_results, previous_results>>

\* the function is run a second time on the same inputs
ClassifyAgain ==
    /\ cls_pc = "returned"
    /\ cls_run = 1
    /\ previous_results' = classification_results
    /\ classification_results' = <<>>
    /\ remaining' = all_materials
    /\ cls_run' = 2
    /\ cls_pc' = "loop"
    /\ UNCHANGED <<netVars, bomVars, lotVars, checkVars, validateVars>>

NextClassify == ClassifyNext \/ ClassifyReturn \/ ClassifyAgain

SpecClassify == InitClassify /\ [][NextClassify]_vars

\* ======================================================================
\* Part IV: validate_bom_data and check_bom_circular_reference (src/utils.py)
\* ======================================================================
\* the keys of dependency_graph: the parents, in the order of their first rows
dependency_graph_keys ==
    LET firsts == {i \in 1..Len(bom_data) :
                     \A j \in 1..(i - 1) : bom_data[j].parent # bom_data[i].parent}
    IN [k \in 1..Cardinality(firsts) |-> bom_data[SortedSeq(firsts)[k]].parent]

\* dependency_graph[item]: the children of the rows of the parent, in row
\* order, repeated rows included; no entry for an item that is no parent
dependency_graph(item) ==
    LET rows == ChildRows(item)
    IN [k \in 1..Len(rows) |-> rows[k].child]

\* (variant: the message names the whole path walked, as build_bom_tree does)
cycle_path_WholePath(path, item) == path \o <<item>>

\* cycle_path = path[path.index(item):] + [item]
cycle_path(path, item) ==
    LET index == CHOOSE j \in 1..Len(path) :
                    path[j] = item /\ \A i \in 1..(j - 1) : path[i] # item
    IN SubSeq(path, index, Len(path)) \o <<item>>

\* check_cycle(item, path): <<>> when the call returns, the cycle path of
\* the ValueError when it raises (the first raise ends the walk)
RECURSIVE check_cycle(_, _)
check_cycle(item, path) ==
    IF InPath(item, path) THEN cycle_path(path, item)
    ELSE LET children == dependency_graph(item)
             raised[k \in 0..Len(children)] ==
                 IF k = 0 THEN <<>>
                 ELSE IF raised[k - 1] # <<>> THEN raised[k - 1]
                 ELSE check_cycle(children[k], path \o <<item>>)
         IN raised[Len(children)]

\* check_bom_circular_reference(bom_data): `for item in dependency_graph:
\* check_cycle(item)`; <<>> when no call raises
check_bom_circular_reference ==
    LET keys == dependency_graph_keys
        raised[k \in 0..Len(keys)] ==
            IF k = 0 THEN <<>>
            ELSE IF raised[k - 1] # <<>> THEN raised[k - 1]
            ELSE check_cycle(keys[k], <<>>)
    IN raised[Len(keys)]

\* validate_bom_data(df), for a table that has its three columns: the usage
\* check, then the cycle check with its ValueError caught
validate_bom_data ==
    IF \E i \in 1..Len(bom_data) : bom_data[i].quantity <= 0
    THEN [is_valid |-> FALSE, message |-> <<"usage must be above 0">>]
    ELSE IF check_bom_circular_reference # <<>>
    THEN [is_valid |-> FALSE, message |-> check_bom_circular_reference]
    ELSE [is_valid |-> TRUE, message |-> <<>>]

\* Any table of up to MaxValEdges rows over the materials, cyclic or not,
\* repeated rows included; one kind of row has a usage of 0.
InitValidate ==
    /\ bom_data \in SeqsUpTo(BomRows(AllPairs, {1}) \cup BomRows({<<"A", "B">>}, {0}),
                              MaxValEdges)
    /\ val_pc = "call"
    /\ val_result = <<>>
    /\ production_plan = <<>> /\ lead_times = <<>>
    /\ bom_pc = "idle" /\ product_i = 0 /\ stack = <<>> /\ bom_trees = <<>>
    /\ plan_i = 0 /\ all_requirements = <<>> /\ error_path = <<>>
    /\ NetIdle /\ LotIdle /\ CheckIdle /\ ClassifyIdle

\* is_valid, message = validate_bom_data(df)
Validate ==
    /\ val_pc = "call"
    /\ val_result' = validate_bom_data
    /\ val_pc' = "returned"
    /\ UNCHANGED <<netVars, bomVars, lotVars, checkVars, classifyVars>>

NextValidate == Validate

SpecValidate == InitValidate /\ [][NextValidate]_vars

\* ======================================================================
\* Properties of the net-requirement computation
\* ======================================================================
cur == all_items[item_i]
Solved == pc = "report"
AtPeriod == pc = "report" /\ date_i <= Len(all_dates)
cur_date == all_dates[date_i]

\* the shortage of the period about to be reported, lot-sized as in section 4.4
LotSizedShortage ==
    apply_lot_sizing(
        Max(0, safety_stock(cur) + demand_on_date(cur, cur_date)
               - po_on_date(cur, cur_date) - projected_inventory),
        min_lot_size(cur), lot_multiple(cur))

\* the forward greedy pass of section 4.4 over the periods and receipts the
\* computation walks: the total net requirement from period k on
RECURSIVE GreedyTotal(_, _, _)
GreedyTotal(item, k, running_inventory) ==
    IF k > Len(all_dates) THEN 0
    ELSE LET t == all_dates[k]
             raw_need == Max(0, safety_stock(item) + demand_on_date(item, t)
                                - po_on_date(item, t) - running_inventory)
             net_t == apply_lot_sizing(raw_need, min_lot_size(item), lot_multiple(item))
         IN net_t + GreedyTotal(item, k + 1,
                                running_inventory + po_on_date(item, t) + net_t
                                - demand_on_date(item, t))

NoCapacityOnPlanningDates == \A rd \in DOMAIN capacity_map : rd[2] \notin AllDateSet

\* C1 (as stated): in every period the net quantity equals the lot-sized
\* shortage of that period, lot_size(max(0, safety + demand - receipt - running
\* inventory before the period)). Stated here for the materials whose plan of
\* least total is unique, where the solver has no choice among optima.
C1_NetEqualsLotSizedShortage ==
    (AtPeriod /\ Cardinality(OptimalPlans(cur)) = 1) =>
        net_requirements[cur_date] = LotSizedShortage

\* C1 (amended): in every period the net quantity is at least the lot-sized
\* shortage of that period, and equals it in the last period walked; so a
\* material with a single period gets exactly the lot-sized shortage (on-hand
\* 20, safety 10, demand 25: net 15, closing 10).
C1_NetAtLeastLotSizedShortage ==
    AtPeriod =>
        /\ net_requirements[cur_date] >= LotSizedShortage
        /\ date_i = Len(all_dates) => net_requirements[cur_date] = LotSizedShortage

\* C1 witness: the row of the end-to-end example has been appended.
C1_Witness ==
    \E i \in 1..Len(mrp_results) :
        /\ mrp_results[i].opening = 20 /\ mrp_results[i].safety = 10
        /\ mrp_results[i].gross = 25 /\ mrp_results[i].receipt = 0
        /\ mrp_results[i].net = 15 /\ mrp_results[i].closing = 10

C3_ClosingAtLeastSafetyStock ==
    /\ (pc = "report" /\ date_i > 1) => projected_inventory >= safety_stock(cur)
    /\ \A i \in 1..Len(mrp_results) : mrp_results[i].closing >= mrp_results[i].safety

\* C3 witness: a period has been processed for a material whose on-hand stock
\* is below its safety stock.
C3_Witness ==
    /\ pc = "report" /\ date_i > 1
    /\ current_inventory(cur) < safety_stock(cur)

\* the dates on which the item has aggregated demand or a scheduled receipt
ItemDateSet(item) ==
    {d \in Dates : demand_on_date(item, d) > 0 \/ po_on_date(item, d) > 0}

\* C4 (as stated): the periods walked for a material are exactly the dates on
\* which that material has demand or a scheduled receipt.
C4_PeriodsAreTheItemsDates ==
    Solved => AllDateSet = ItemDateSet(cur)

\* the plans a run without capacity records may select
UncappedOptimalPlans(item) == LeastTotalPlans(item, NoRecords)

CeilingShortfall(item, cap) ==
    \E k \in 1..Len(all_dates) :
        LET upto == {all_dates[j] : j \in 1..k}
            ceiling(d) == SetMin({BigM} \cup {cap[rd] : rd \in {x \in DOMAIN cap : x[2] = d}})
        IN current_inventory(item)
           + SumOver([d \in upto |-> po_on_date(item, d) + ceiling(d)
                                     - demand_on_date(item, d)], upto)
           < safety_stock(item)

\* without a lot rule: the ceilings of capacity_map leave a shortage
CapacityShortfall(item) == CeilingShortfall(item, capacity_map)

\* the fixed ceiling of BigM units per period alone leaves a shortage
BigMShortfall(item) == CeilingShortfall(item, NoRecords)

C12_RowBalances ==
    \A i \in 1..Len(mrp_results) :
        LET row == mrp_results[i]
        IN /\ row.closing = row.opening + row.receipt + row.net - row.gross
           /\ row.gross = demand_on_date(row.item, row.date)
           /\ row.receipt = po_on_date(row.item, row.date)

\* C12 witness: a row with a receipt, a demand and an opening inventory, all
\* positive.
C12_Witness ==
    \E i \in 1..Len(mrp_results) :
        /\ mrp_results[i].receipt > 0 /\ mrp_results[i].gross > 0
        /\ mrp_results[i].opening > 0 /\ mrp_results[i].net > 0

\* the first t planning dates, and a plan cut down to them
FirstDates(t) == {all_dates[j] : j \in 1..t}
PlanUpTo(plan, t) == [d \in FirstDates(t) |-> plan[d]]

\* the plans for the first t periods alone: the constraints of the model that
\* the solver would be given if nothing were demanded or received after
\* period t
PrefixFeasible(item, plan, t) ==
    /\ \A k \in 1..t : InventoryLevel(item, plan, k) >= safety_stock(item)
    /\ \A rd \in DOMAIN capacity_map :
          rd[2] \in FirstDates(t) => plan[rd[2]] <= capacity_map[rd]

FeasiblePlansUpTo(item, t) ==
    {plan \in [FirstDates(t) -> LotValues(item)] : PrefixFeasible(item, plan, t)}

LeastTotalUpTo(item, t) == SetMin({Total(plan) : plan \in FeasiblePlansUpTo(item, t)})

LeastTotalPlansUpTo(item, t) ==
    {plan \in FeasiblePlansUpTo(item, t) : Total(plan) = LeastTotalUpTo(item, t)}

\* C13 (as stated): the net quantities of periods 1..t do not depend on what
\* is demanded or received after t. An input that agrees with this one up to
\* t and has nothing after t gets a plan of least total for the first t
\* periods alone; so, where that plan and the plan of this input are both
\* the only ones of least total, the quantities of periods 1..t must be the
\* same.
C13_NoLookAhead ==
    (Solved /\ capacity_map = NoRecords /\ Cardinality(OptimalPlans(cur)) = 1) =>
        \A t \in 1..Len(all_dates) :
            Cardinality(LeastTotalPlansUpTo(cur, t)) = 1 =>
                PlanUpTo(net_requirements, t) \in LeastTotalPlansUpTo(cur, t)

\* C13 (amended): the quantities of periods 1..t satisfy the constraints of
\* those periods, so their sum is never below the least total that the
\* periods up to t need on their own; it can be above it, since the solver
\* may cover a later period early. (Stated of the plan as the solver returns
\* it, before the result loop; over all the periods the plan is one of least
\* total by the solver's objective.)
C13_PrefixIsCoveredNotMinimal ==
    (Solved /\ date_i = 1) =>
        /\ \A t \in 1..Len(all_dates) :
              /\ PlanUpTo(net_requirements, t) \in [FirstDates(t) -> LotValues(cur)]
              /\ PrefixFeasible(cur, PlanUpTo(net_requirements, t), t)
        /\ \A t \in 1..(Len(all_dates) - 1) :
              Total(PlanUpTo(net_requirements, t)) >= LeastTotalUpTo(cur, t)

\* C13 witness: a plan whose first period carries more than the first period
\* needs on its own.
C13_Witness ==
    /\ Solved
    /\ Len(all_dates) = 2
    /\ lot_sizes # <<>>
    /\ Total(PlanUpTo(net_requirements, 1)) > LeastTotalUpTo(cur, 1)

\* C14: a row is appended for a period exactly when its net quantity is
\* above 0: while a material is reported, its rows are those of the periods
\* already processed whose net quantity is positive, one row each; every
\* processed period, row or no row, has entered the running inventory with
\* its receipt and its demand.
C14_RowIffPositiveNet ==
    /\ \A i \in 1..Len(mrp_results) : mrp_results[i].net > 0
    /\ pc = "report" =>
          /\ {mrp_results[i].date : i \in {j \in 1..Len(mrp_results) :
                                               mrp_results[j].item = cur}}
                = {all_dates[j] : j \in {k \in 1..(date_i - 1) :
                                            net_requirements[all_dates[k]] > 0}}
          /\ \A i, j \in 1..Len(mrp_results) :
                (mrp_results[i].item = mrp_results[j].item
                    /\ mrp_results[i].date = mrp_results[j].date) => i = j
          /\ projected_inventory = InventoryLevel(cur, net_requirements, date_i - 1)

\* C14 witness: a period with demand and a receipt but net quantity 0 has
\* been processed: no row, and the running inventory has moved.
C14_Witness ==
    /\ pc = "report" /\ date_i = 2
    /\ net_requirements[all_dates[1]] = 0
    /\ demand_on_date(cur, all_dates[1]) > 0
    /\ po_on_date(cur, all_dates[1]) > 0
    /\ projected_inventory # current_inventory(cur)
    /\ \A i \in 1..Len(mrp_results) : mrp_results[i].item # cur

\* the position of a date in all_dates
PeriodIndex(date) == CHOOSE k \in 1..Len(all_dates) : all_dates[k] = date

\* the on-hand stock recorded for the item, 0 without a record
OnHandStock(item) ==
    IF \E it \in DOMAIN inventory_data : it = item
    THEN inventory_data[item].onhand ELSE 0

\* C26: the running inventory is threaded in period order. Before the first
\* period it is the material's on-hand stock (0 without an inventory record);
\* the opening inventory of every later period is the closing inventory of
\* the period just before it, row or no row: opening + receipt + net - demand
\* of that period. So the opening of a row is the on-hand stock plus the
\* receipts and net quantities minus the demands of all earlier periods, and a
\* row that follows a row of the period just before opens with its closing.
C26_InventoryThreadedInPeriodOrder ==
    /\ (pc = "report" /\ date_i = 1) => projected_inventory = OnHandStock(cur)
    /\ (pc = "report" /\ date_i > 1) =>
          LET before == all_dates[date_i - 1]
              opening_before == InventoryLevel(cur, net_requirements, date_i - 2)
          IN projected_inventory =
                opening_before + po_on_date(cur, before) + net_requirements[before]
                - demand_on_date(cur, before)
    /\ pc = "report" =>
          \A i \in 1..Len(mrp_results) :
              mrp_results[i].item = cur =>
                 LET k == PeriodIndex(mrp_results[i].date)
                 IN /\ k = 1 => mrp_results[i].opening = OnHandStock(cur)
                    /\ mrp_results[i].opening = InventoryLevel(cur, net_requirements, k - 1)
    /\ \A i, j \in 1..Len(mrp_results) :
          (/\ mrp_results[i].item = mrp_results[j].item
           /\ PeriodIndex(mrp_results[j].date) = PeriodIndex(mrp_results[i].date) + 1)
              => mrp_results[j].opening = mrp_results[i].closing

\* C26 witness: a row of the second period after a first period that had
\* demand and no row: its opening is not the on-hand stock.
C26_Witness ==
    /\ pc = "report" /\ date_i > 2
    /\ net_requirements[all_dates[1]] = 0
    /\ demand_on_date(cur, all_dates[1]) > 0
    /\ \E i \in 1..Len(mrp_results) :
          /\ mrp_results[i].item = cur
          /\ mrp_results[i].date = all_dates[2]
          /\ mrp_results[i].opening # OnHandStock(cur)

\* C27: every net quantity of the result is above 0, at least the material's
\* minimum lot and, when the material's lot multiple is above 1, a multiple of
\* it; a material without a lot-size record has minimum lot 0 and multiple 1.
C27_NetQuantitiesObeyLotRule ==
    \A i \in 1..Len(mrp_results) :
        LET row == mrp_results[i]
            rule == IF row.item \in DOMAIN lot_sizes THEN lot_sizes[row.item]
                    ELSE [min_lot |-> 0, multiple |-> 1]
        IN /\ row.net > 0
           /\ row.net >= rule.min_lot
           /\ rule.multiple > 1 => row.net % rule.multiple = 0

\* C27 witness: a row whose net quantity was raised from a need of 1 to the
\* minimum lot of 2, on multiples of 2.
C27_Witness ==
    \E i \in 1..Len(mrp_results) :
        /\ mrp_results[i].item \in DOMAIN lot_sizes
        /\ lot_sizes[mrp_results[i].item] = [min_lot |-> 2, multiple |-> 2]
        /\ mrp_results[i].gross = 1 /\ mrp_results[i].opening = 0
        /\ mrp_results[i].safety = 0
        /\ mrp_results[i].net = 2

\* C28 (as stated): after the last period the running inventory is the
\* on-hand stock plus ALL the purchase-order quantities of the material plus
\* its net quantities minus its aggregated gross demand.
C28_SupplyIsConserved ==
    (pc = "report" /\ date_i > Len(all_dates)) =>
        projected_inventory =
            OnHandStock(cur) + SumOver(po_summary[cur], Dates)
            + Total(net_requirements) - SumOver(gross_requirements_summary[cur], Dates)

\* the order of the material codes
ItemRank(item) == IF item = "M" THEN 1 ELSE 2

\* the rows of one material, in the order of the collection
RowsOfItem(item) == SelectSeq(mrp_results, LAMBDA row : row.item = item)

\* the plan that the rows of a material stand for: the net quantity of the
\* row of a date, 0 for a date without a row
PlanOfRows(item) ==
    [d \in AllDateSet |->
        IF \E i \in 1..Len(mrp_results) :
              mrp_results[i].item = item /\ mrp_results[i].date = d
        THEN mrp_results[CHOOSE i \in 1..Len(mrp_results) :
                mrp_results[i].item = item /\ mrp_results[i].date = d].net
        ELSE 0]

\* the rows that a plan of a material gives when the material is solved on
\* its own: computed from the inputs of that material and the plan alone
RowsOfPlan(item, plan) ==
    LET ks == SortedSeq({k \in 1..Len(all_dates) : plan[all_dates[k]] > 0})
    IN [n \in 1..Len(ks) |->
          LET date == all_dates[ks[n]]
              opening == InventoryLevel(item, plan, ks[n] - 1)
          IN [item |-> item, date |-> date, gross |-> demand_on_date(item, date),
              opening |-> opening, safety |-> safety_stock(item),
              receipt |-> po_on_date(item, date), net |-> plan[date],
              closing |-> opening + po_on_date(item, date) + plan[date]
                          - demand_on_date(item, date)]]

C22_AllOrNothing ==
    /\ [](pc = "raised" => mrp_results = <<>>)
    /\ [](bom_pc = "error" =>
            /\ bom_trees = <<>> /\ all_requirements = <<>>
            /\ gross_requirements_summary = <<>> /\ mrp_results = <<>>)
    /\ [][pc # "raised" /\ bom_pc # "error"]_vars

\* C22 witness: the run failed on the second material after the first one
\* was solved with a net quantity above 0, whose row had been appended.
C22_Witness ==
    /\ pc = "raised"
    /\ item_i = 2
    /\ \A plan \in OptimalPlans(all_items[1]) : Total(plan) > 0
    /\ OptimalPlans(all_items[1]) # {}

\* a build that failed on the second product after the tree of the first
\* one was built
C22_SecondProductFails ==
    bom_pc = "error" /\ product_i = 2

\* C23 (as stated): with no capacity record, a plan is found for every
\* material and the run does not end in an error.
C23_NoCapacityNeverRaises ==
    capacity_map = NoRecords => pc # "raised"

\* C15: apply_lot_sizing returns 0 for a quantity of 0 or less; otherwise the
\* least value that is at least max(quantity, min lot) and, for a multiple
\* above 1, a multiple of it (so max(quantity, min lot) itself when that is
\* already a multiple); (5,20,10) gives 20, (25,20,10) gives 30, (0,20,10)
\* and (-3,20,10) give 0.
C15_LotSizingIsLeastAdmissible ==
    lot_pc = "returned" =>
        LET raw == lot_args.quantity
            base == Max(raw, lot_args.min_lot_size)
            multiple == lot_args.lot_multiple
            Admissible(v) == v >= base /\ (multiple > 1 => v % multiple = 0)
        IN /\ raw <= 0 => lot_result = 0
           /\ raw > 0 =>
                 /\ Admissible(lot_result)
                 /\ \A v \in 0..(lot_result - 1) : ~Admissible(v)
           /\ (raw > 0 /\ Admissible(base)) => lot_result = base
           /\ (lot_args.min_lot_size = 20 /\ multiple = 10) =>
                 /\ raw = 5 => lot_result = 20
                 /\ raw = 25 => lot_result = 30
                 /\ raw = 0 => lot_result = 0
                 /\ raw = 0 - 3 => lot_result = 0

\* C15 witness: the call (25, 20, 10) has returned 30.
C15_Witness ==
    /\ lot_pc = "returned"
    /\ lot_args = [quantity |-> 25, min_lot_size |-> 20, lot_multiple |-> 10]
    /\ lot_result = 30

\* ======================================================================
\* Properties of check_capacity_constraints
\* ======================================================================
\* the records of resource_requirements that link the item to the resource
RecordsOf(item, resource) ==
    {j \in 1..Len(resource_requirements) :
        /\ resource_requirements[j].item = item
        /\ resource_requirements[j].resource = resource}

\* the result rows of the date
RowsOn(date) == {i \in 1..Len(mrp_results) : mrp_results[i].date = date}

\* net quantity times usage, summed over the rows of the date and over EVERY
\* record that links the row's material to the resource
ConsumptionOfAllRecords(resource, date) ==
    LET pairs == UNION {{<<i, j>> : j \in RecordsOf(mrp_results[i].item, resource)} :
                          i \in RowsOn(date)}
    IN SumOver([ij \in pairs |->
                  mrp_results[ij[1]].net * resource_requirements[ij[2]].usage], pairs)

\* the same, with the LAST record of a (material, resource) pair only
ConsumptionOfLastRecords(resource, date) ==
    LET using == {i \in RowsOn(date) : RecordsOf(mrp_results[i].item, resource) # {}}
    IN SumOver([i \in using |->
                  mrp_results[i].net
                  * resource_requirements[
                        SetMax(RecordsOf(mrp_results[i].item, resource))].usage],
               using)

\* the (resource, date) pairs for which a result row of the date has a
\* material with a record for the resource, whatever its usage
PairsInUse ==
    {rd \in CheckResources \X Dates :
        \E i \in RowsOn(rd[2]) : RecordsOf(mrp_results[i].item, rd[1]) # {}}

CheckReturned == chk_pc = "returned"

\* C16 (as stated): the consumption reported for a (resource, date) is the
\* sum over the result rows of the date and over every resource-requirement
\* record of the row's material and the resource, repeated pairs included.
C16_EveryRecordContributes ==
    CheckReturned =>
        \A k \in 1..Len(capacity_check_results) :
            capacity_check_results[k].usage =
                ConsumptionOfAllRecords(capacity_check_results[k].resource,
                                        capacity_check_results[k].date)

\* C16 (amended): the consumption reported for a (resource, date) is the sum
\* over the result rows of the date of net quantity times the usage per unit
\* of the row's material on the resource, where a (material, resource) pair
\* that appears in several records counts once, with the usage of its last
\* record.
C16_LastRecordContributes ==
    CheckReturned =>
        \A k \in 1..Len(capacity_check_results) :
            capacity_check_results[k].usage =
                ConsumptionOfLastRecords(capacity_check_results[k].resource,
                                         capacity_check_results[k].date)

\* C16 witness: a (material, resource) pair with two records of different
\* usage, the later one above 0, and a row reporting its consumption.
C16_Witness ==
    /\ CheckReturned
    /\ Len(resource_requirements) = 2
    /\ resource_requirements[1].item = resource_requirements[2].item
    /\ resource_requirements[1].resource = resource_requirements[2].resource
    /\ resource_requirements[1].usage = 0
    /\ resource_requirements[2].usage > 0
    /\ \E k \in 1..Len(capacity_check_results) :
          /\ capacity_check_results[k].resource = resource_requirements[1].resource
          /\ capacity_check_results[k].usage > 0

\* the capacity rows of a (resource, date)
CapacityRecordsOf(resource, date) ==
    {i \in 1..Len(capacity_constraints) :
        /\ capacity_constraints[i].resource = resource
        /\ capacity_constraints[i].date = date}

\* C17: in every row of the check the flag is set exactly when the
\* consumption is above the capacity, the overage is max(0, consumption -
\* capacity), and so the flag is set exactly when the overage is above 0.
\* The capacity of the row is that recorded for its (resource, date); with
\* no record the pair is unlimited, not flagged, and has overage 0.
\* (Capacity 100, net 15: usage 2 gives 30 and no violation, usage 10 gives
\* 150, a violation and an overage of 50.)
C17_FlagIffOverCapacity ==
    CheckReturned =>
        \A k \in 1..Len(capacity_check_results) :
            LET row == capacity_check_results[k]
                recorded == CapacityRecordsOf(row.resource, row.date)
            IN /\ recorded = {} =>
                     /\ row.capacity = Infinity
                     /\ ~row.is_violated
                     /\ row.overage = 0
               /\ recorded # {} =>
                     /\ row.capacity = capacity_constraints[SetMax(recorded)].capacity
                     /\ row.is_violated <=> row.usage > row.capacity
                     /\ row.overage = Max(0, row.usage - row.capacity)
               /\ row.is_violated <=> row.overage > 0
               /\ (row.capacity = 100 /\ row.usage = 30) =>
                     (~row.is_violated /\ row.overage = 0)
               /\ (row.capacity = 100 /\ row.usage = 150) =>
                     (row.is_violated /\ row.overage = 50)

\* C17 witness: the row of the example with usage 10: consumption 150 over a
\* capacity of 100.
C17_Witness ==
    /\ CheckReturned
    /\ \E k \in 1..Len(capacity_check_results) :
          /\ capacity_check_results[k].usage = 150
          /\ capacity_check_results[k].capacity = 100
          /\ capacity_check_results[k].is_violated
          /\ capacity_check_results[k].overage = 50

\* a row of a pair without a capacity record, and a row at its capacity
C17_UnlimitedAndAtCapacity ==
    /\ CheckReturned
    /\ \E k, l \in 1..Len(capacity_check_results) :
          /\ capacity_check_results[k].capacity = Infinity
          /\ capacity_check_results[k].usage > 0
          /\ capacity_check_results[l].capacity = capacity_check_results[l].usage

RowPairs ==
    {<<capacity_check_results[k].resource, capacity_check_results[k].date>> :
        k \in 1..Len(capacity_check_results)}

OneRowPerPair ==
    \A k, l \in 1..Len(capacity_check_results) :
        (/\ capacity_check_results[k].resource = capacity_check_results[l].resource
         /\ capacity_check_results[k].date = capacity_check_results[l].date) => k = l

\* C18 (as stated): there is exactly one row for each (resource, date) whose
\* accumulated consumption is not 0, and no row for any other pair.
C18_RowsAreTheNonzeroPairs ==
    CheckReturned =>
        /\ OneRowPerPair
        /\ RowPairs = {rd \in CheckResources \X Dates :
                          ConsumptionOfLastRecords(rd[1], rd[2]) # 0}

\* C18 (amended): there is exactly one row for each (resource, date) for
\* which some result row of the date has a material with a requirement
\* record on the resource, and no row for any other pair; a usage per unit
\* of 0 gives a row with consumption 0.
C18_RowsAreThePairsInUse ==
    CheckReturned =>
        /\ OneRowPerPair
        /\ RowPairs = PairsInUse

\* C18 witness: a row with consumption 0 next to a row for the same
\* (resource, date) reached by two result rows.
C18_Witness ==
    /\ CheckReturned
    /\ \E k \in 1..Len(capacity_check_results) : capacity_check_results[k].usage = 0
    /\ \E rd \in PairsInUse :
          Cardinality({i \in RowsOn(rd[2]) :
                         RecordsOf(mrp_results[i].item, rd[1]) # {}}) = 2

\* ======================================================================
\* Properties of classify_materials
\* ======================================================================
IsParent(material) == \E i \in 1..Len(bom_data) : bom_data[i].parent = material
IsChild(material) == \E i \in 1..Len(bom_data) : bom_data[i].child = material

TypesOf(results, material) ==
    {results[k].type : k \in {j \in 1..Len(results) : results[j].material = material}}

\* C19: every material of the inventory gets exactly one row and label: raw
\* if it is a child and not a parent, finished if a parent and not a child,
\* intermediate if both, unknown otherwise, and there is no row for any
\* other material; the label of a material is the same in a second run that
\* visits the materials in another order, and depends on the BOM rows through
\* the sets of parents and children only. Rows (A,B), (B,C) with A, B, C in
\* the inventory give A finished, B intermediate, C raw.
C19_OneLabelBySetAlgebra ==
    cls_pc = "returned" =>
        /\ {classification_results[k].material : k \in 1..Len(classification_results)}
              = DOMAIN inventory_data
        /\ Len(classification_results) = Cardinality(DOMAIN inventory_data)
        /\ \A k \in 1..Len(classification_results) :
              LET material == classification_results[k].material
                  type == classification_results[k].type
              IN /\ type = "raw" <=> (IsChild(material) /\ ~IsParent(material))
                 /\ type = "finished" <=> (IsParent(material) /\ ~IsChild(material))
                 /\ type = "intermediate" <=> (IsParent(material) /\ IsChild(material))
                 /\ type = "unknown" <=> (~IsParent(material) /\ ~IsChild(material))
        /\ cls_run = 2 =>
              \A material \in DOMAIN inventory_data :
                  TypesOf(classification_results, material)
                      = TypesOf(previous_results, material)
        /\ (/\ bom_data \in {<<[parent |-> "A", child |-> "B", quantity |-> 1],
                                [parent |-> "B", child |-> "C", quantity |-> 1]>>,
                              <<[parent |-> "B", child |-> "C", quantity |-> 1],
                                [parent |-> "A", child |-> "B", quantity |-> 1]>>}
            /\ DOMAIN inventory_data = {"A", "B", "C"}) =>
              /\ TypesOf(classification_results, "A") = {"finished"}
              /\ TypesOf(classification_results, "B") = {"intermediate"}
              /\ TypesOf(classification_results, "C") = {"raw"}

\* C19 witness: the second run of the example has returned, its rows in
\* another order than those of the first run.
C19_Witness ==
    /\ cls_pc = "returned" /\ cls_run = 2
    /\ bom_data = <<[parent |-> "B", child |-> "C", quantity |-> 1],
                    [parent |-> "A", child |-> "B", quantity |-> 1]>>
    /\ DOMAIN inventory_data = {"A", "B", "C"}
    /\ classification_results # previous_results

\* C20 (as stated): two runs on the same inputs return the same rows in the
\* same order.
C20_TwoRunsSameRows ==
    (cls_pc = "returned" /\ cls_run = 2) => classification_results = previous_results

\* ======================================================================
\* Properties of build_bom_tree and get_all_requirements
\* ======================================================================
\* the scheduling of a single-threaded run: a step that can be taken is taken
FairSpecBom == SpecBom /\ WF_vars(NextBom)

IsEdge(parent, child) ==
    \E i \in 1..Len(bom_data) : bom_data[i].parent = parent /\ bom_data[i].child = child

\* the quantity of the edge in the tree: that of the last row of the pair
EdgeQuantity(parent, child) ==
    LET rows == {i \in 1..Len(bom_data) :
                    bom_data[i].parent = parent /\ bom_data[i].child = child}
    IN bom_data[SetMax(rows)].quantity

\* the walks along BOM edges that start at root, of at most n materials
Walks(root, n) ==
    {w \in UNION {[1..k -> Materials] : k \in 1..n} :
        /\ w[1] = root
        /\ \A i \in 1..(Len(w) - 1) : IsEdge(w[i], w[i + 1])}

HasRepeat(w) == \E i, j \in 1..Len(w) : i < j /\ w[i] = w[j]

\* some path that starts at root revisits a material (a path that does has a
\* prefix of at most one material more than there are materials)
RevisitingPath(root) ==
    \E w \in Walks(root, Cardinality(Materials) + 1) : HasRepeat(w)

BuildRoot == all_products[product_i]
BuildOver == bom_pc # "build"

\* C7: building a product's tree ends; it ends in the circular-reference
\* error if and only if some path from the root revisits a material, and
\* otherwise with the tree built. While it runs, the materials of the active
\* calls are pairwise distinct, so the recursion is never deeper than the
\* number of materials.
C7_BuildEndsAndFailsIffRevisit ==
    /\ [](/\ bom_pc = "error" => RevisitingPath(BuildRoot)
          /\ \A product \in DOMAIN bom_trees : ~RevisitingPath(product)
          /\ bom_pc \in {"explode", "done"} =>
                \A k \in 1..Len(production_plan) :
                    /\ production_plan[k].product \in DOMAIN bom_trees
                    /\ ~RevisitingPath(production_plan[k].product)
          /\ \A k \in 1..Len(stack) :
                /\ ~HasRepeat(stack[k].path \o <<stack[k].item>>)
                /\ Len(stack[k].path) = k - 1)
    /\ <>BuildOver

\* C7 witness: a tree was built from a BOM that has a cycle out of the
\* root's reach, over a diamond below the root.
C7_Witness ==
    /\ bom_pc = "done"
    /\ IsEdge("B", "B")
    /\ IsEdge("A", "C")
    /\ ~IsEdge("A", "B")

\* C8: the circular-reference error names the walk from the root to the
\* repeated material: it starts at the root, every consecutive pair is a BOM
\* edge, the materials before the last are pairwise distinct (the ancestors of
\* the current walk) and the last one equals one of them.
C8_ErrorNamesThePath ==
    bom_pc = "error" =>
        /\ Len(error_path) >= 2
        /\ error_path[1] = BuildRoot
        /\ \A i \in 1..(Len(error_path) - 1) : IsEdge(error_path[i], error_path[i + 1])
        /\ ~HasRepeat(SubSeq(error_path, 1, Len(error_path) - 1))
        /\ \E j \in 1..(Len(error_path) - 1) : error_path[j] = error_path[Len(error_path)]

\* C8 witness: the error of a cycle that does not pass through the root.
C8_Witness == bom_pc = "error" /\ error_path = <<"A", "B", "C", "B">>

RECURSIVE PathQuantity(_, _)
PathQuantity(path, i) ==
    IF i >= Len(path) THEN 1
    ELSE EdgeQuantity(path[i], path[i + 1]) * PathQuantity(path, i + 1)

RECURSIVE PathLeadTime(_, _)
PathLeadTime(path, i) ==
    IF i > Len(path) THEN 0
    ELSE prod_lead_time(path[i]) + PathLeadTime(path, i + 1)

\* the nodes of the tree of a plan row's product are the walks from the
\* product; each has exactly one record among those of the row
EveryNodeHasOneRecord(line) ==
    LET records == {k \in 1..Len(all_requirements) : all_requirements[k].line = line}
    IN /\ {all_requirements[k].path : k \in records}
            = Walks(production_plan[line].product, Cardinality(Materials))
       /\ \A k, l \in records :
            all_requirements[k].path = all_requirements[l].path => k = l

Exploded(line) == bom_pc \in {"explode", "done"} /\ plan_i > line

\* C9: for every plan row, every node of the product's tree has its record,
\* and the quantity of the record of a node is the plan quantity times the
\* product of the edge quantities along the chain from the root to the node
\* (the plan quantity itself for the root).
C9_QuantityIsProductAlongChain ==
    \A line \in 1..Len(production_plan) :
        Exploded(line) =>
            /\ EveryNodeHasOneRecord(line)
            /\ \A k \in 1..Len(all_requirements) :
                 all_requirements[k].line = line =>
                    /\ all_requirements[k].quantity =
                          production_plan[line].quantity
                          * PathQuantity(all_requirements[k].path, 1)
                    /\ all_requirements[k].level = 0 =>
                          all_requirements[k].quantity = production_plan[line].quantity

\* C9 witness: a record two levels below the root whose plan quantity and
\* edge quantities are all above 1.
C9_Witness ==
    /\ bom_pc = "done"
    /\ \E k \in 1..Len(all_requirements) :
          /\ all_requirements[k].level = 2
          /\ production_plan[all_requirements[k].line].quantity = MaxPlanQty
          /\ all_requirements[k].quantity = MaxPlanQty * MaxBomQty * MaxBomQty

\* C10: the date of the record of a node is the plan row's due date minus
\* the production lead times of the node and of all its ancestors up to the
\* root, a material without a lead-time record counting 0.
C10_DateIsDueMinusLeadTimes ==
    \A k \in 1..Len(all_requirements) :
        LET r == all_requirements[k]
        IN /\ r.path[1] = production_plan[r.line].product
           /\ r.path[Len(r.path)] = r.item
           /\ Len(r.path) = r.level + 1
           /\ r.date = production_plan[r.line].date - PathLeadTime(r.path, 1)

\* C10 witness: a record two levels below the root where the root and the
\* node have a lead time and the material between them has no record.
C10_Witness ==
    /\ bom_pc = "done"
    /\ \E k \in 1..Len(all_requirements) :
          LET r == all_requirements[k]
          IN /\ r.level = 2
             /\ r.path[1] \in DOMAIN lead_times
             /\ r.path[2] \notin DOMAIN lead_times
             /\ r.path[3] \in DOMAIN lead_times
             /\ r.date = DueDate - 2 * MaxLead

\* the (plan row, walk) pairs that end at the item on the date
ChainsTo(item, date) ==
    {lw \in UNION {{<<l, w>> : w \in Walks(production_plan[l].product,
                                              Cardinality(Materials))} :
                      l \in 1..Len(production_plan)} :
        /\ lw[2][Len(lw[2])] = item
        /\ production_plan[lw[1]].date - PathLeadTime(lw[2], 1) = date}

ChainQuantity(lw) == production_plan[lw[1]].quantity * PathQuantity(lw[2], 1)

BomDates == (DueDate - 3 * MaxLead - 1)..DueDate

\* C11: a material reached through several chains has one record per chain;
\* the grouped table has exactly one row for every (material, date) that some
\* chain of some plan row ends at, and none else; the quantity of the row is
\* the sum over those plan rows and chains of the plan quantity times the
\* edge quantities along the chain.
C11_AggregateSumsOverLinesAndChains ==
    bom_pc = "done" =>
        /\ \A line \in 1..Len(production_plan) : EveryNodeHasOneRecord(line)
        /\ \A k \in 1..Len(gross_requirements_summary) :
              LET row == gross_requirements_summary[k]
                  chains == ChainsTo(row.item, row.date)
              IN /\ chains # {}
                 /\ row.quantity = SumOver([lw \in chains |-> ChainQuantity(lw)], chains)
        /\ \A item \in Materials, date \in BomDates :
              ChainsTo(item, date) # {} =>
                 Cardinality({k \in 1..Len(gross_requirements_summary) :
                                 /\ gross_requirements_summary[k].item = item
                                 /\ gross_requirements_summary[k].date = date}) = 1
        /\ \A k, l \in 1..Len(gross_requirements_summary) :
              (/\ gross_requirements_summary[k].item = gross_requirements_summary[l].item
               /\ gross_requirements_summary[k].date = gross_requirements_summary[l].date)
                 => k = l

\* C11 witness: a diamond (C below A directly and through B) whose two chains
\* to C end on the same date, next to a second plan row or not: the row of C
\* sums more than one chain.
C11_Witness ==
    /\ bom_pc = "done"
    /\ \E k \in 1..Len(gross_requirements_summary) :
          LET row == gross_requirements_summary[k]
          IN /\ row.item = "C"
             /\ \E lw1, lw2 \in ChainsTo(row.item, row.date) :
                   lw1[1] = lw2[1] /\ Len(lw1[2]) = 2 /\ Len(lw2[2]) = 3

\* a row of the grouped table that sums the chains of two plan rows
C11_TwoLinesSummed ==
    /\ bom_pc = "done"
    /\ \E k \in 1..Len(gross_requirements_summary) :
          \E lw1, lw2 \in ChainsTo(gross_requirements_summary[k].item,
                                   gross_requirements_summary[k].date) :
              lw1[1] # lw2[1]
\* the chains of BOM rows that start at root: each row's parent is the child
\* of the row before it (a tree over the materials is at most two edges deep)
RowWalks(root) ==
    {w \in UNION {[1..k -> 1..Len(bom_data)] : k \in 1..(Cardinality(Materials) - 1)} :
        /\ bom_data[w[1]].parent = root
        /\ \A i \in 1..(Len(w) - 1) : bom_data[w[i + 1]].parent = bom_data[w[i]].child}

\* the materials along a chain of rows, and the product of its quantities
RowWalkPath(root, w) == <<root>> \o [i \in 1..Len(w) |-> bom_data[w[i]].child]

RECURSIVE RowWalkQuantity(_, _)
RowWalkQuantity(w, i) ==
    IF i > Len(w) THEN 1 ELSE bom_data[w[i]].quantity * RowWalkQuantity(w, i + 1)

\* C25 (as stated): the explosion of a plan row emits 1 record plus one
\* record per chain of BOM rows from the root, so that two rows with the same
\* parent and the same child each have their own record with their own
\* quantity.
C25_OneRecordPerEdgeOccurrence ==
    \A line \in 1..Len(production_plan) :
        Exploded(line) =>
            LET root == production_plan[line].product
                records == {k \in 1..Len(all_requirements) :
                               all_requirements[k].line = line}
            IN /\ Cardinality(records) = 1 + Cardinality(RowWalks(root))
               /\ \A w \in RowWalks(root) :
                     \E k \in records :
                         /\ all_requirements[k].path = RowWalkPath(root, w)
                         /\ all_requirements[k].quantity =
                               production_plan[line].quantity * RowWalkQuantity(w, 1)

\* ======================================================================
\* Properties of validate_bom_data
\* ======================================================================
\* the edge set has a directed cycle: a walk of at least one edge that ends
\* where it starts
HasCycle ==
    \E root \in Materials :
        \E w \in Walks(root, Cardinality(Materials) + 1) :
            Len(w) >= 2 /\ w[Len(w)] = root

\* C24: validate_bom_data returns for every table, cyclic or not. For a
\* table whose usages are all above 0 it returns (False, message) if and only
\* if the edges have a directed cycle anywhere, and (True, "") otherwise; the
\* message names the cycle only: it starts and ends with the repeated
\* material, every consecutive pair is an edge, and no other material is
\* named twice.
C24_ValidateFailsIffCycleAndNamesIt ==
    (val_pc = "returned" /\ \A i \in 1..Len(bom_data) : bom_data[i].quantity > 0) =>
        LET message == val_result.message
        IN /\ val_result.is_valid <=> ~HasCycle
           /\ val_result.is_valid => message = <<>>
           /\ ~val_result.is_valid =>
                 /\ Len(message) >= 2
                 /\ message[1] = message[Len(message)]
                 /\ \A i \in 1..(Len(message) - 1) : IsEdge(message[i], message[i + 1])
                 /\ ~HasRepeat(SubSeq(message, 1, Len(message) - 1))

\* C24 witness: a cycle between B and C found on the walk that starts at A:
\* the message names B, C, B and not A.
C24_Witness ==
    /\ val_pc = "returned"
    /\ bom_data # <<>>
    /\ bom_data[1].parent = "A"
    /\ ~val_result.is_valid
    /\ val_result.message = <<"B", "C", "B">>
====
